---- MODULE Spec2Model ----
(***************************************************************************)
(* The polling bridge of synthetic-adsb (bridge.py): main()'s loop fetches  *)
(* an ADS-B snapshot, queries adsb2dd once per radar, stores every returned *)
(* delay/doppler pair in the RadarStore and sleeps to keep the poll rate.   *)
(*                                                                         *)
(* Time is counted in ticks (TicksPerSecond) on the loop's own clock.        *)
(* RadarStore and RadarAPI (radar_store.py, radar_api.py) are imported by   *)
(* bridge.py; the store is modelled from its documented contract.           *)
(***************************************************************************)
EXTENDS Integers, Sequences, FiniteSets

\* ------------------------------------------------------------- constants

\* bridge.py:39-43, the ids of RADARS in list order.
RADARS == <<"rx1", "rx2", "rx3">>

RadarIds == {RADARS[i] : i \in 1..Len(RADARS)}

\* bridge.py:36: polls per second.
POLL_RATE_HZ == 1

\* bridge.py:80 and 110: requests.get(..., timeout=5), in seconds.
RequestTimeout == 5

\* bridge.py:59 and 75: check_port_open(host, port, timeout=1), in seconds.
PortTimeout == 1

\* ---------------------------------------------------------------- bounds

\* The resolution of the loop's clock.
TicksPerSecond == 2

\* bridge.py:134: loop_delay = 1.0 / POLL_RATE_HZ, in ticks.
loop_delay == TicksPerSecond \div POLL_RATE_HZ

\* The longest a single network call is let to take in the model (ticks).
MaxDur == 2

\* The most a time.sleep() call may overshoot the requested time (ticks).
MaxOvershoot == 1

\* The most entries of one adsb2dd response.
MaxEntries == 2

\* The retained count of one radar's series.
Capacity == 2

\* The most add_measurement calls of a store-only run.
MaxInserts == Capacity + 5

Min(a, b) == IF a < b THEN a ELSE b

Max(a, b) == IF a > b THEN a ELSE b

\* ------------------------------------------------------------ input sets

\* adsb2dd's entries: hex -> {timestamp, delay, doppler}; values in tenths.
GoodEntries == {[delay |-> 123, doppler |-> -45]}

\* What a store-only run hands to add_measurement.
Samples == {[delay |-> 123, doppler |-> -45], [delay |-> 200, doppler |-> 10]}

\* An entry of a 2xx JSON body that lacks a key main() reads.
BadEntries == {[delay |-> 123]}

Entries == GoodEntries \cup BadEntries

\* dd.values(): the entries of a response in the mapping's order.
Responses == UNION {[1..n -> Entries] : n \in 0..MaxEntries}

\* How query_adsb2dd_for raises: timeout, non-2xx status, non-JSON body.
QueryErrors == {"Timeout", "HTTPError", "JSONDecodeError"}

\* How fetch_adsb comes to return None: the port check fails, requests.get or
\* raise_for_status or resp.json() raises, or the body is the JSON value null.
FetchFailures ==
    {"PortClosed", "Timeout", "ConnectionError", "HTTPError", "JSONDecodeError", "NullBody"}

\* What a network call may take: up to its timeout, and at most MaxDur.
Durations == 0..Min(MaxDur, RequestTimeout * TicksPerSecond)

\* What fetch_adsb may take: the port check, then the GET.
FetchDurations == 0..Min(MaxDur, (PortTimeout + RequestTimeout) * TicksPerSecond)

\* A sleep's overshoot.
Overshoots == 0..MaxOvershoot

\* Calls and sleeps that take no time on the loop's clock.
Instant == {0}

\* The responses none of whose entries gets stored: empty, or raising at once.
UnstoredResponses == {dd \in Responses : dd = <<>> \/ dd[1] \in BadEntries}

\* ----------------------------------------------------------------- state

VARIABLES
    pc,        \* where main() is: a pc of LoopPcs, "handler" or "Stopped"
    idx,       \* index into RADARS of the radar the for loop is at
    store,     \* RadarStore: radar id -> its series, oldest first
    elapsed,   \* ticks since t_start was taken, 0 between two cycles
    to_sleep,  \* the to_sleep main() computed, or the argument of the skip's sleep
    lag,       \* ticks by which t_start is behind (completed cycles) * loop_delay, capped
    cycle,     \* what happened in the current cycle: fetch result, per radar outcome
    history,   \* allOk: every call so far succeeded; onTime: the calls of every cycle
               \* so far took loop_delay at most together, and no sleep overshot
    apiStops,  \* number of api.stop() calls
    inserted,  \* store-only runs: every measurement handed to add_measurement, per radar
    lock,      \* the store's lock: "free", or held by the "writer" or the "reader"
    wr,        \* the add_measurement call in progress: its step, radar and sample
    rd,        \* the read or read_all call in progress or last made, and what it returned
    clock      \* the store's clock, in ticks; only stamped runs follow it

vars == <<pc, idx, store, elapsed, to_sleep, lag, cycle, history, apiStops, inserted,
          lock, wr, rd, clock>>


\* ------------------------------------------------------------ RadarStore

\* A stored Measurement: the pair and the insertion timestamp the store assigns.
Measurement(delay, doppler) == [delay |-> delay, doppler |-> doppler, ts |-> clock]

EmptyStore == [r \in RadarIds |-> <<>>]

\* add_measurement fails with UnknownRadar for an id not registered at startup.
UnknownRadar(s, radar_id) == radar_id \notin DOMAIN s

\* A series keeps its Capacity newest entries: the oldest are evicted first.
EvictOldest(series) ==
    IF Len(series) > Capacity
    THEN SubSeq(series, Len(series) - Capacity + 1, Len(series))
    ELSE series

EvictNewest(series) ==
    IF Len(series) > Capacity THEN SubSeq(series, 1, Capacity) ELSE series

Evict(series) == EvictOldest(series)

\* add_measurement that makes a series for an id it does not know.
add_measurement_any_id(s, radar_id, delay, doppler) ==
    [r \in DOMAIN s \cup {radar_id} |->
        Evict(Append(IF r \in DOMAIN s THEN s[r] ELSE <<>>, Measurement(delay, doppler)))]

\* add_measurement that puts the new Measurement first.
add_measurement_at_head(s, radar_id, delay, doppler) ==
    IF UnknownRadar(s, radar_id)
    THEN s
    ELSE [s EXCEPT ![radar_id] = Evict(<<Measurement(delay, doppler)>> \o @)]

\* add_measurement(radar_id, delay, doppler): append, evicting in the same call.
add_measurement(s, radar_id, delay, doppler) ==
    IF UnknownRadar(s, radar_id)
    THEN s
    ELSE [s EXCEPT ![radar_id] = Evict(Append(@, Measurement(delay, doppler)))]

\* read(radar_id, limit): the newest `limit` entries, all of them for limit = None (-1).
read(s, radar_id, limit) ==
    IF limit < 0 \/ limit >= Len(s[radar_id])
    THEN s[radar_id]
    ELSE SubSeq(s[radar_id], Len(s[radar_id]) - limit + 1, Len(s[radar_id]))

read_all(s) == [r \in DOMAIN s |-> read(s, r, -1)]

\* ------------------------------------------------------- main(): helpers

\* meas["delay"], meas["doppler"] raise KeyError on an entry lacking the key.
HasKeys(meas) == {"delay", "doppler"} \subseteq DOMAIN meas

\* Lines 153-157: the keyword arguments of the add_measurement call.
AddArgsSwapped(radar, meas) ==
    [radar_id |-> radar, delay |-> meas.doppler, doppler |-> meas.delay]

AddArgs(radar, meas) ==
    [radar_id |-> radar, delay |-> meas.delay, doppler |-> meas.doppler]

\* Lines 152-157: one add_measurement per entry, in order, up to the first
\* entry that raises. Returns the store, the number added, and whether it raised.
RECURSIVE StoreEntries(_, _, _)
StoreEntries(s, radar, dd) ==
    IF dd = <<>>
    THEN [store |-> s, added |-> 0, raised |-> FALSE]
    ELSE LET meas == Head(dd)
         IN  IF ~HasKeys(meas) \/ UnknownRadar(s, radar)
             THEN [store |-> s, added |-> 0, raised |-> TRUE]
             ELSE LET a == AddArgs(radar, meas)
                      rest == StoreEntries(
                                  add_measurement(s, a.radar_id, a.delay, a.doppler),
                                  radar, Tail(dd))
                  IN  [rest EXCEPT !.added = @ + 1]

\* The number of entries of dd before the first one lacking a key.
LeadingComplete(dd) ==
    LET bad == {i \in 1..Len(dd) : ~HasKeys(dd[i])}
    IN  IF bad = {} THEN Len(dd) ELSE (CHOOSE i \in bad : \A j \in bad : i <= j) - 1

\* Line 75: the endpoint fetch_adsb probes; lines 29 and 80: the one it requests.
ProbeEndpoint == <<"localhost", 5001>>

FeedEndpoint == <<"192.168.0.172", 5001>>

Endpoints == {ProbeEndpoint, FeedEndpoint}

\* What the GET of line 80-83 comes to once issued.
Replies == {"ok", "Timeout", "ConnectionError", "HTTPError", "JSONDecodeError", "NullBody"}

\* The network as one fetch finds it: which endpoints accept a connection, and
\* what the request comes to; a feed that accepts none cannot answer.
FeedEnvs ==
    {e \in [open : [Endpoints -> BOOLEAN], reply : Replies] :
        ~e.open[FeedEndpoint] => e.reply \in {"Timeout", "ConnectionError"}}

\* Lines 59-69: connect_ex returned 0; an exception of the probe is False too.
check_port_open(env, endpoint) == env.open[endpoint]

\* Lines 84-92: every except clause of fetch_adsb returns None.
OnFetchErrorReraise(kind) == IF kind = "HTTPError" THEN "raised" ELSE "None"

OnFetchError(kind) == "None"

\* Lines 71-92: the result, the endpoint probed, the requests issued and what
\* the caller gets ("snapshot", "None", or "raised" for an exception).
fetch_adsb(env) ==
    IF ~check_port_open(env, ProbeEndpoint)
    THEN [result |-> "PortClosed", probed |-> ProbeEndpoint, requests |-> <<>>,
          returned |-> "None"]
    ELSE [result |-> env.reply, probed |-> ProbeEndpoint, requests |-> <<FeedEndpoint>>,
          returned |-> IF env.reply = "ok" THEN "snapshot"
                       ELSE IF env.reply = "NullBody" THEN "None"
                       ELSE OnFetchError(env.reply)]

\* Lines 160-161: an exception of steps (a)-(b) is logged and step (c) follows.
OnLoopError == [pc |-> "drift", idx |-> 0]

\* Lines 143-149: a snapshot of None skips the iteration, anything else fans out.
AfterFetchAlwaysFanOut(result) == [pc |-> "fanout", idx |-> 1]

AfterFetch(result) ==
    IF result = "ok" THEN [pc |-> "fanout", idx |-> 1] ELSE [pc |-> "skip", idx |-> 0]

\* Line 149: the for loop moves to the next radar, and to step (c) after the last.
NextRadar(i) ==
    IF i < Len(RADARS) THEN [pc |-> "fanout", idx |-> i + 1] ELSE [pc |-> "drift", idx |-> 0]

\* Lines 158-159: an exception of one radar's block is logged and the for loop goes on.
OnRadarErrorAbortCycle(i) == [pc |-> "drift", idx |-> 0]

OnRadarErrorEscape(i) == [pc |-> "crashed", idx |-> 0]

OnRadarError(i) == NextRadar(i)

\* Lines 165-166: to_sleep = loop_delay - elapsed.
ToSleepFullPeriod(e) == loop_delay

ToSleep(e) == loop_delay - e

\* Line 145: the sleep of an iteration skipped after a failed fetch.
SkipSleep(e) == loop_delay

\* Line 170: KeyboardInterrupt is caught outside the while loop.
OnKeyboardInterruptUncaught == "crashed"

OnKeyboardInterrupt == "handler"

\* Lines 172-173: after api.stop() main() returns.
AfterStopResume == "start"

AfterStop == "Stopped"

\* The pcs inside `while True`.
LoopPcs == {"start", "fetch", "skip", "fanout", "drift", "sleep"}

\* What the model records of one cycle: the fetch result, the endpoint probed,
\* whether the feed's endpoint accepted connections, the feed requests issued
\* and what fetch_adsb gave its caller; per radar the outcome
\* of its block ("ok", "raised" by the request, "malformed" entry, "interrupted")
\* and the geometry requests issued for it (queries),
\* the entries of its response (expect), those before the first malformed one
\* (leading) and the add_measurement calls made (added); whether the store was
\* empty at t_start; where Ctrl-C arrived.
NewCycle(s) ==
    [fetch   |-> "none",
     probed  |-> <<>>,
     feedOpen |-> FALSE,
     requests |-> <<>>,
     returned |-> "none",
     queries |-> [r \in RadarIds |-> 0],
     outcome |-> [r \in RadarIds |-> "none"],
     expect  |-> [r \in RadarIds |-> 0],
     leading |-> [r \in RadarIds |-> 0],
     added   |-> [r \in RadarIds |-> 0],
     fresh   |-> (s = EmptyStore),
     interruptedAt |-> "none"]

LagCap == 2 * loop_delay + 1

\* The lag of the next t_start once a cycle of `len` ticks has completed.
NextLag(len) == Min(LagCap, Max(0, lag + len - loop_delay))

\* No add_measurement call is in progress.
IdleWriter == [pc |-> "idle", radar |-> "none", sample |-> <<>>]

\* No read call was made yet.
IdleReader == [pc |-> "idle", what |-> "none", seen |-> <<>>]

\* ------------------------------------------------------------------ Init

Init ==
    /\ pc = "start"
    /\ idx = 0
    /\ store = EmptyStore
    /\ elapsed = 0
    /\ to_sleep = 0
    /\ lag = 0
    /\ cycle = NewCycle(EmptyStore)
    /\ history = [allOk |-> TRUE, onTime |-> TRUE]
    /\ apiStops = 0
    /\ inserted = [r \in RadarIds |-> <<>>]
    /\ lock = "free"
    /\ wr = IdleWriter
    /\ rd = IdleReader
    /\ clock = 0

\* --------------------------------------------------------------- actions

\* Line 139: t_start = time.time().
CycleStart ==
    /\ pc = "start"
    /\ pc' = "fetch"
    /\ elapsed' = 0
    /\ to_sleep' = 0
    /\ cycle' = NewCycle(store)
    /\ UNCHANGED <<idx, store, lag, history, apiStops, inserted, lock, wr, rd, clock>>

\* Lines 142-146 with fetch_adsb (71-92): the port check and the GET take d ticks;
\* every failure kind makes fetch_adsb return None.
Fetch(Durs) ==
    /\ pc = "fetch"
    /\ \E d \in Durs, env \in FeedEnvs :
          LET f == fetch_adsb(env)
              nxt == IF f.returned = "raised" THEN OnLoopError ELSE AfterFetch(f.result)
          IN  /\ elapsed' = elapsed + d
              /\ cycle' = [cycle EXCEPT !.fetch = f.result,
                                        !.probed = f.probed,
                                        !.feedOpen = env.open[FeedEndpoint],
                                        !.requests = @ \o f.requests,
                                        !.returned = f.returned]
              /\ pc' = nxt.pc
              /\ idx' = nxt.idx
              /\ history' = [allOk  |-> history.allOk /\ f.result = "ok",
                             onTime |-> history.onTime /\ elapsed + d <= loop_delay]
    /\ UNCHANGED <<store, to_sleep, lag, apiStops, inserted, lock, wr, rd, clock>>

\* Lines 150-151, 158-159: query_adsb2dd_for raises for RADARS[idx].
QueryFails(Durs) ==
    /\ pc = "fanout"
    /\ \E d \in Durs, err \in QueryErrors :
          /\ elapsed' = elapsed + d
          /\ cycle' = [cycle EXCEPT !.outcome[RADARS[idx]] = "raised",
                                    !.queries[RADARS[idx]] = @ + 1]
          /\ pc' = OnRadarError(idx).pc
          /\ idx' = OnRadarError(idx).idx
          /\ history' = [allOk  |-> FALSE,
                         onTime |-> history.onTime /\ elapsed + d <= loop_delay]
    /\ UNCHANGED <<store, to_sleep, lag, apiStops, inserted, lock, wr, rd, clock>>

\* Lines 150-159: query_adsb2dd_for returns dd for RADARS[idx] and its entries are stored.
QueryReturns(Durs, Resps) ==
    /\ pc = "fanout"
    /\ \E d \in Durs, dd \in Resps :
          LET r == RADARS[idx]
              res == StoreEntries(store, r, dd)
              nxt == IF res.raised THEN OnRadarError(idx) ELSE NextRadar(idx)
          IN  /\ elapsed' = elapsed + d
              /\ store' = res.store
              /\ cycle' = [cycle EXCEPT
                              !.outcome[r] = IF res.raised THEN "malformed" ELSE "ok",
                              !.queries[r] = @ + 1,
                              !.expect[r] = Len(dd),
                              !.leading[r] = LeadingComplete(dd),
                              !.added[r] = res.added]
              /\ pc' = nxt.pc
              /\ idx' = nxt.idx
              /\ history' = [allOk  |-> history.allOk /\ ~res.raised,
                             onTime |-> history.onTime /\ elapsed + d <= loop_delay]
    /\ UNCHANGED <<to_sleep, lag, apiStops, inserted, lock, wr, rd, clock>>

\* Lines 144-145: a failed fetch: time.sleep(loop_delay), whatever has elapsed.
Skip ==
    /\ pc = "skip"
    /\ to_sleep' = SkipSleep(elapsed)
    /\ pc' = "sleep"
    /\ UNCHANGED <<idx, store, elapsed, lag, cycle, history, apiStops, inserted, lock, wr, rd, clock>>

\* Lines 165-167: elapsed is read and to_sleep computed; no sleep unless to_sleep > 0.
Drift ==
    /\ pc = "drift"
    /\ to_sleep' = ToSleep(elapsed)
    /\ IF ToSleep(elapsed) > 0
       THEN /\ pc' = "sleep"
            /\ UNCHANGED <<elapsed, lag>>
       ELSE /\ pc' = "start"
            /\ elapsed' = 0
            /\ lag' = NextLag(elapsed)
    /\ UNCHANGED <<idx, store, cycle, history, apiStops, inserted, lock, wr, rd, clock>>

\* Lines 145 and 168: time.sleep(to_sleep) returns after to_sleep ticks or later.
Sleep(Overs) ==
    /\ pc = "sleep"
    /\ \E over \in Overs :
          /\ lag' = NextLag(elapsed + to_sleep + over)
          /\ history' = [history EXCEPT !.onTime = @ /\ over = 0]
    /\ elapsed' = 0
    /\ pc' = "start"
    /\ UNCHANGED <<idx, store, to_sleep, cycle, apiStops, inserted, lock, wr, rd, clock>>

\* Line 170: Ctrl-C raises KeyboardInterrupt in the main thread wherever it is in
\* the loop; no `except Exception` of the loop catches it.
Interrupt ==
    /\ pc \in LoopPcs
    /\ pc' = OnKeyboardInterrupt
    /\ cycle' = [cycle EXCEPT !.interruptedAt = pc]
    /\ UNCHANGED <<idx, store, elapsed, to_sleep, lag, history, apiStops, inserted, lock, wr, rd, clock>>

\* Lines 151-157 cut short: KeyboardInterrupt arrives once the first n entries
\* of RADARS[idx]'s response are stored, n >= 1.
InterruptMidRadar(Resps) ==
    /\ pc = "fanout"
    /\ \E dd \in Resps, n \in 1..MaxEntries :
          LET r == RADARS[idx]
              res == StoreEntries(store, r, SubSeq(dd, 1, n))
          IN  /\ n <= Len(dd)
              /\ ~res.raised
              /\ store' = res.store
              /\ cycle' = [cycle EXCEPT
                              !.outcome[r] = "interrupted",
                              !.queries[r] = @ + 1,
                              !.expect[r] = Len(dd),
                              !.leading[r] = LeadingComplete(dd),
                              !.added[r] = res.added,
                              !.interruptedAt = pc]
    /\ pc' = OnKeyboardInterrupt
    /\ UNCHANGED <<idx, elapsed, to_sleep, lag, history, apiStops, inserted, lock, wr, rd, clock>>

\* Lines 171-173: the handler stops the API servers and main() returns.
Shutdown ==
    /\ pc = "handler"
    /\ apiStops' = apiStops + 1
    /\ pc' = AfterStop
    /\ UNCHANGED <<idx, store, elapsed, to_sleep, lag, cycle, history, inserted, lock, wr, rd, clock>>

RECURSIVE SumLen(_, _)
SumLen(f, S) ==
    IF S = {} THEN 0 ELSE LET r == CHOOSE x \in S : TRUE IN Len(f[r]) + SumLen(f, S \ {r})

TotalInserted == SumLen(inserted, RadarIds)

\* Ids no RadarConfig has.
UnknownIds == {"rx9"}

\* The most ticks a stamped run follows the store's clock.
MaxClock == 2

\* A store-only run: any caller adds any sample to any registered radar's series,
\* up to `limit` calls in all.
StoreAdd(limit) ==
    /\ \E r \in RadarIds, m \in Samples :
          /\ TotalInserted < limit
          /\ store' = add_measurement(store, r, m.delay, m.doppler)
          /\ inserted' = [inserted EXCEPT ![r] = Append(@, Measurement(m.delay, m.doppler))]
          /\ wr' = IdleWriter
    /\ UNCHANGED <<pc, idx, elapsed, to_sleep, lag, cycle, history, apiStops, lock, rd, clock>>

\* add_measurement with an id that was not registered: the call fails with UnknownRadar.
StoreAddUnknown ==
    /\ \E r \in UnknownIds, m \in Samples :
          /\ UnknownRadar(store, r)
          /\ store' = add_measurement(store, r, m.delay, m.doppler)
          /\ wr' = [pc |-> "UnknownRadar", radar |-> r, sample |-> m]
    /\ UNCHANGED <<pc, idx, elapsed, to_sleep, lag, cycle, history, apiStops, inserted,
                   lock, rd, clock>>

\* Time passes on the store's clock.
Tick ==
    /\ clock < MaxClock
    /\ clock' = clock + 1
    /\ UNCHANGED <<pc, idx, store, elapsed, to_sleep, lag, cycle, history, apiStops,
                   inserted, lock, wr, rd>>

\* ------------------------------------------- the store shared by threads

\* The most add_measurement calls of a concurrent run: enough to overflow a series.
MaxBurst == Capacity + 2

\* A reader waits for the lock like any caller.
ReaderIgnoresLock(l) == TRUE

ReaderMayEnter(l) == l = "free"

\* add_measurement takes the store's lock (the Scheduler is the one writer).
WriteBegin ==
    /\ wr.pc = "idle" /\ lock = "free"
    /\ TotalInserted < MaxBurst
    /\ \E r \in RadarIds, m \in Samples :
          wr' = [pc |-> "locked", radar |-> r, sample |-> m]
    /\ lock' = "writer"
    /\ UNCHANGED <<pc, idx, store, elapsed, to_sleep, lag, cycle, history, apiStops,
                   inserted, rd, clock>>

\* The new Measurement is appended field by field: first with its delay only.
WriteAppend ==
    /\ wr.pc = "locked"
    /\ store' = [store EXCEPT ![wr.radar] = Append(@, [delay |-> wr.sample.delay])]
    /\ wr' = [wr EXCEPT !.pc = "appended"]
    /\ UNCHANGED <<pc, idx, elapsed, to_sleep, lag, cycle, history, apiStops,
                   inserted, lock, rd, clock>>

\* Then its doppler is set.
WriteFill ==
    /\ wr.pc = "appended"
    /\ store' = [store EXCEPT ![wr.radar][Len(store[wr.radar])] =
                                  Measurement(wr.sample.delay, wr.sample.doppler)]
    /\ wr' = [wr EXCEPT !.pc = "filled"]
    /\ UNCHANGED <<pc, idx, elapsed, to_sleep, lag, cycle, history, apiStops,
                   inserted, lock, rd, clock>>

\* Then the overflow is evicted.
WriteEvict ==
    /\ wr.pc = "filled"
    /\ store' = [store EXCEPT ![wr.radar] = Evict(@)]
    /\ wr' = [wr EXCEPT !.pc = "evicted"]
    /\ UNCHANGED <<pc, idx, elapsed, to_sleep, lag, cycle, history, apiStops,
                   inserted, lock, rd, clock>>

\* add_measurement returns and releases the lock.
WriteEnd ==
    /\ wr.pc = "evicted"
    /\ inserted' = [inserted EXCEPT ![wr.radar] =
                        Append(@, Measurement(wr.sample.delay, wr.sample.doppler))]
    /\ wr' = IdleWriter
    /\ lock' = "free"
    /\ UNCHANGED <<pc, idx, store, elapsed, to_sleep, lag, cycle, history, apiStops, rd, clock>>

\* A request thread calls read(radar) or read_all() and takes the lock.
ReadBegin ==
    /\ rd.pc \in {"idle", "done"}
    /\ ReaderMayEnter(lock)
    /\ \E what \in RadarIds \cup {"all"} :
          rd' = [pc |-> "reading", what |-> what, seen |-> <<>>]
    /\ lock' = IF lock = "free" THEN "reader" ELSE lock
    /\ UNCHANGED <<pc, idx, store, elapsed, to_sleep, lag, cycle, history, apiStops,
                   inserted, wr, clock>>

\* It copies what it was asked for, releases the lock and returns the copy.
ReadEnd ==
    /\ rd.pc = "reading"
    /\ rd' = [rd EXCEPT
                 !.pc = "done",
                 !.seen = IF rd.what = "all"
                          THEN read_all(store)
                          ELSE [r \in {rd.what} |-> read(store, rd.what, -1)]]
    /\ lock' = IF lock = "reader" THEN "free" ELSE lock
    /\ UNCHANGED <<pc, idx, store, elapsed, to_sleep, lag, cycle, history, apiStops,
                   inserted, wr, clock>>

ConcNext ==
    WriteBegin \/ WriteAppend \/ WriteFill \/ WriteEvict \/ WriteEnd \/ ReadBegin \/ ReadEnd

\* One writer and one reader on the shared store.
ConcSpec == Init /\ [][ConcNext]_vars

\* The loop with every call and sleep instantaneous: what the store comes to hold.
Loop ==
    \/ CycleStart
    \/ Fetch(Instant)
    \/ QueryFails(Instant)
    \/ QueryReturns(Instant, Responses)
    \/ Skip
    \/ Drift
    \/ Sleep(Instant)

Next == Loop \/ Interrupt \/ InterruptMidRadar(Responses) \/ Shutdown

Spec == Init /\ [][Next]_vars

\* The loop on its clock, with responses that leave the store as it is.
TimedLoop ==
    \/ CycleStart
    \/ Fetch(FetchDurations)
    \/ QueryFails(Durations)
    \/ QueryReturns(Durations, UnstoredResponses)
    \/ Skip
    \/ Drift
    \/ Sleep(Overshoots)

\* With nothing stored, Ctrl-C inside a radar's block is Interrupt at "fanout".
TimedNext == TimedLoop \/ Interrupt \/ Shutdown

TimedSpec == Init /\ [][TimedNext]_vars

\* The loop's steps and the handler are taken when they can be; Ctrl-C need not come.
FairSpec == TimedSpec /\ WF_vars(TimedLoop) /\ WF_vars(Shutdown)

StoreNext == StoreAdd(MaxInserts) \/ StoreAddUnknown

StoreSpec == Init /\ [][StoreNext]_vars

\* Store-only runs that follow the clock: adds with time passing between them.
StampNext == StoreAdd(MaxBurst) \/ Tick

StampSpec == Init /\ [][StampNext]_vars

TypeOK ==
    /\ pc \in LoopPcs \cup {"handler", "Stopped"}
    /\ idx \in 0..Len(RADARS)
    /\ \A r \in RadarIds : Len(store[r]) <= Capacity
    /\ apiStops \in 0..1

\* ---------------------------------------------------------------- claims

StoredOf(meas) == Measurement(meas.delay, meas.doppler)

FetchFailed == cycle.fetch \in FetchFailures

Attempted(r) == cycle.outcome[r] # "none"

\* The cycle has run to its end (step (c) or the skip's sleep), uninterrupted.
CycleDone == pc \in {"drift", "sleep", "start"} /\ cycle.fetch # "none"

\* C1: in a cycle whose fetch failed no radar is queried, no add_measurement is
\* made (a store empty at t_start is still empty), and main() is still in its
\* loop or was stopped by Ctrl-C: no exception ended it.
C1_FailedFetchSkipsCycle ==
    FetchFailed =>
        /\ \A r \in RadarIds : ~Attempted(r) /\ cycle.added[r] = 0
        /\ cycle.fresh => read_all(store) = EmptyStore
        /\ pc \in {"skip", "sleep", "start", "handler", "Stopped"}

\* A later cycle's fetch failed and the cycle has run to its end.
C1_Witness == FetchFailed /\ pc = "start" /\ ~cycle.fresh /\ to_sleep = loop_delay

\* The radars whose block raised in this cycle: the request failed, or the
\* response held an entry that does not parse.
RadarFailed(r) == cycle.outcome[r] \in {"raised", "malformed"}

\* C2: in a completed cycle where exactly one radar fails and the others succeed,
\* every succeeding radar gained one Measurement per entry of its response and
\* the failing radar gained none.
C2_FailureIsolation ==
    (CycleDone /\ ~FetchFailed /\ Cardinality({r \in RadarIds : RadarFailed(r)}) = 1) =>
        \A r \in RadarIds :
            /\ cycle.outcome[r] = "ok" => cycle.added[r] = cycle.expect[r]
            /\ RadarFailed(r) => cycle.added[r] = 0

\* C3: whenever main() sleeps at the end of a cycle, after a failed fetch too,
\* it sleeps max(0, loop_delay - elapsed).
C3_DriftCorrectedEveryCycle ==
    pc = "sleep" => to_sleep = Max(0, loop_delay - elapsed)

\* Ticks by which the clock is ahead of (completed cycles) * loop_delay.
Behind == lag + elapsed

\* C4 as claimed: while every fetch and geometry call has succeeded, the completed
\* cycles are within one of R*T, however long the calls took.
C4_WithinOneCycleAnyDuration == history.allOk => Behind <= loop_delay

\* C4 amended: the same while, besides, the calls of every cycle took loop_delay
\* at most together and every sleep lasted exactly the time asked for.
C4_WithinOneCycleOnTime == (history.allOk /\ history.onTime) => Behind <= loop_delay

\* A successful cycle whose calls took the whole period ended without a sleep.
C4_Witness ==
    /\ history.allOk /\ history.onTime
    /\ pc = "start" /\ cycle.fetch = "ok" /\ to_sleep = 0

CycleFailed == FetchFailed \/ \E r \in RadarIds : RadarFailed(r)

C6_StopTerminates ==
    (cycle.interruptedAt # "none") ~> (pc = "Stopped" /\ apiStops = 1)

\* Ctrl-C arrived during a sleep and main() has stopped.
C6_Witness == pc = "Stopped" /\ apiStops = 1 /\ cycle.interruptedAt = "sleep"

\* C7: main() never stops with measurements of some radars written in the last
\* cycle and other radars never queried in it.
C7_StopAtCycleBoundary ==
    pc = "Stopped" =>
        ~ /\ \E r \in RadarIds : cycle.added[r] > 0
          /\ \E r \in RadarIds : ~Attempted(r)

Returned == {StoredOf(meas) : meas \in GoodEntries}

\* Every stored Measurement is a returned pair, and a series that was empty at
\* t_start holds as many as were added for its radar in the cycle.
NothingFabricated ==
    \A r \in RadarIds :
        /\ \A i \in 1..Len(store[r]) : store[r][i] \in Returned
        /\ cycle.fresh => Len(store[r]) = Min(cycle.added[r], Capacity)

Copies(n, m) == [i \in 1..Min(n, Capacity) |-> m]

\* C9: a radar whose response is stored whole gains one Measurement per entry;
\* after a completed cycle from an empty store where every radar's response was
\* stored whole, read_all() holds for each radar its own response's pairs (one
\* each for the same single-aircraft mapping), not deduplicated across radars.
C9_SuccessfulCycle ==
    /\ \A r \in RadarIds : cycle.outcome[r] = "ok" => cycle.added[r] = cycle.expect[r]
    /\ (CycleDone /\ cycle.fresh /\ \A r \in RadarIds : cycle.outcome[r] = "ok") =>
          \A r \in RadarIds :
              read_all(store)[r] = Copies(cycle.expect[r], Measurement(123, -45))

\* The end-to-end scenario: one aircraft per radar, one Measurement per radar.
C9_Witness ==
    /\ CycleDone /\ cycle.fresh
    /\ \A r \in RadarIds : cycle.outcome[r] = "ok" /\ cycle.expect[r] = 1
    /\ read_all(store) = [r \in RadarIds |-> <<Measurement(123, -45)>>]

\* The newest k entries of a sequence.
Newest(seq, k) == SubSeq(seq, Len(seq) - Min(Len(seq), k) + 1, Len(seq))

\* C10: after n add_measurement calls on a radar's series, read(radar, None) is
\* the min(n, Capacity) most recently inserted measurements in insertion order.
C10_BoundedFifo ==
    \A r \in RadarIds : read(store, r, -1) = Newest(inserted[r], Capacity)

\* Capacity + 5 inserts into one series: Capacity entries are left, 5 evicted.
C10_Witness ==
    \E r \in RadarIds :
        /\ Len(inserted[r]) = Capacity + 5
        /\ Len(read(store, r, -1)) = Capacity
        /\ read(store, r, -1) = SubSeq(inserted[r], 6, Capacity + 5)

\* A Measurement with both fields set.
Complete(meas) == {"delay", "doppler"} \subseteq DOMAIN meas

\* The series a radar had between two complete add_measurement calls.
SettledSeries(r) ==
    {Newest(SubSeq(inserted[r], 1, k), Capacity) : k \in 0..Len(inserted[r])}

\* C11: what a read or read_all returned, whenever it ran among the writes, is
\* for each radar a series the radar had between two complete add_measurement
\* calls: every Measurement has its delay and doppler, the series is within
\* capacity, and an overflowing insert shows with its eviction or not at all.
C11_ReadsAreAtomic ==
    rd.pc = "done" =>
        \A r \in DOMAIN rd.seen :
            /\ \A i \in 1..Len(rd.seen[r]) : Complete(rd.seen[r][i])
            /\ Len(rd.seen[r]) <= Capacity
            /\ rd.seen[r] \in SettledSeries(r)

\* A read_all returned a full series after an overflowing insert, while the
\* next add_measurement was at work.
C11_Witness ==
    /\ rd.pc = "done" /\ rd.what = "all"
    /\ wr.pc \in {"appended", "filled"}
    /\ \E r \in RadarIds : Len(inserted[r]) > Capacity /\ Len(rd.seen[r]) = Capacity


\* C12: add_measurement with a radar id that was not registered fails with
\* UnknownRadar and leaves the store as it was: no series is made for the id and
\* no registered radar's series changes.
C12_UnknownRadarRejected ==
    [][wr'.pc = "UnknownRadar" =>
          /\ wr'.radar \notin RadarIds
          /\ store' = store
          /\ DOMAIN store' = RadarIds]_vars

C12_Witness ==
    /\ wr.pc = "UnknownRadar"
    /\ \E r \in RadarIds : Len(store[r]) = Capacity

\* The timestamps of a series, oldest first.
Stamps(series) == [i \in 1..Len(series) |-> series[i].ts]

NonDecreasing(q) == \A i, j \in 1..Len(q) : i <= j => q[i] <= q[j]

\* C13: within one radar's series the timestamps never decrease, and the series
\* holds its Measurements in the order of the add_measurement calls (so those
\* of a later cycle come after those of an earlier one), also once the oldest
\* have been evicted.
C13_SeriesInInsertionOrder ==
    \A r \in RadarIds :
        /\ NonDecreasing(Stamps(read(store, r, -1)))
        /\ \E k \in 0..Len(inserted[r]) :
              read(store, r, -1) = SubSeq(inserted[r], k + 1, Len(inserted[r]))

C13_Witness ==
    \E r \in RadarIds :
        /\ Len(inserted[r]) > Capacity
        /\ Len(store[r]) = Capacity
        /\ store[r][1].ts < store[r][Capacity].ts
        /\ inserted[r][1].ts < store[r][1].ts


Fetched == cycle.fetch # "none"

\* C14: the probe is made against the endpoint the feed request goes to; the
\* request is issued only if the probe succeeded; and when the feed's endpoint
\* accepts no connection, no feed request is issued.
C14_ProbeGatesFetch ==
    Fetched =>
        /\ cycle.probed = FeedEndpoint
        /\ cycle.requests # <<>> => cycle.fetch # "PortClosed"
        /\ ~cycle.feedOpen => cycle.requests = <<>>

\* C15: whatever the failure kind, fetch_adsb hands its caller None and raises
\* nothing: the loop takes the `is None` branch and sleeps a whole period.
C15_FailuresCollapseToNone ==
    FetchFailed =>
        /\ cycle.returned = "None"
        /\ pc \in {"skip", "sleep", "start", "handler", "Stopped"}
        /\ pc = "sleep" => to_sleep = loop_delay

C15_Witness ==
    /\ cycle.fetch = "HTTPError"
    /\ pc = "sleep"
    /\ \E r \in RadarIds : store[r] # <<>>

\* The cycle is over: it ran to its end, or the stop signal cut it.
CycleOver == CycleDone \/ pc \in {"handler", "Stopped"}

AtMostOneRequestEach ==
    /\ Len(cycle.requests) <= 1
    /\ \A r \in RadarIds : cycle.queries[r] <= 1
    /\ cycle.fetch # "ok" => \A r \in RadarIds : cycle.queries[r] = 0

\* C16: in every cycle at most one feed request is issued and no geometry
\* request is issued twice, and a cycle whose fetch succeeded issues exactly
\* one geometry request for every configured radar.
C16_OneRequestEachPerCycle ==
    /\ AtMostOneRequestEach
    /\ (cycle.fetch = "ok" /\ CycleOver) => \A r \in RadarIds : cycle.queries[r] = 1

\* C17: a radar's block that has run gave the series one Measurement for every
\* entry of the response or none; after a malformed entry nothing of the
\* response is in a series that was empty when the cycle began.
C17_AllOrNothing ==
    \A r \in RadarIds :
        cycle.outcome[r] \in {"ok", "raised", "malformed"} =>
            /\ cycle.added[r] \in {0, cycle.expect[r]}
            /\ (cycle.outcome[r] = "malformed" /\ cycle.fresh) => store[r] = <<>>

StopHandled == pc \in {"handler", "Stopped"}

\* C18: once the stop signal is handled no step fetches, queries or adds: the
\* series and the cycle's record stay as they are and the loop is not entered
\* again; api.stop() has been called once when main() has returned and not at
\* all while the loop runs.
C18_StoppedIsTerminal ==
    /\ [](pc = "Stopped" => apiStops = 1)
    /\ [](pc \in LoopPcs \cup {"handler"} => apiStops = 0)
    /\ [][StopHandled =>
             /\ store' = store
             /\ cycle' = cycle
             /\ pc' \in {"handler", "Stopped"}
             /\ apiStops' <= 1]_vars

C18_Witness ==
    /\ pc = "Stopped"
    /\ apiStops = 1
    /\ cycle.interruptedAt = "fanout"
    /\ \E r \in RadarIds : store[r] # <<>>

====
